---- MODULE Spec2Model ----
(***************************************************************************)
(* A state-machine model of the StackClub tutorial notebooks.              *)
(*                                                                         *)
(* A run executes one notebook from its first code cell to its last, one   *)
(* statement (or cell) per step, the way "Run All" does: an exception that *)
(* no cell catches halts the run.  The calls into the LSST stack are       *)
(* modelled by what the notebook's own text says they do; their results    *)
(* (how many footprints detection finds, how many peaks each has, whether  *)
(* a call raises) are inputs drawn from bounded sets.                      *)
(*                                                                         *)
(*   notebook = "deblender"    src/unnamed/part_000 lines 1-637            *)
(*   notebook = "scarlet"      src/unnamed/part_000 lines 639-1242         *)
(*   notebook = "butler"       src/unnamed/part_000 lines 2615-2993        *)
(*   notebook = "inventory"    src/Graveyard/DataInventory.ipynb           *)
(*   notebook = "call"         one call of showRGB, arbitrary arguments    *)
(*   notebook = "makeCatalog"  one call of makeCatalog, arbitrary globals  *)
(*   notebook = "weights"      the cells at 907-944, variances followed    *)
(*   notebook = "listing"      the listing cells of DataInventory.ipynb on *)
(*                             a data directory of known content           *)
(*   notebook = "get"          butler.get with and without an extra key    *)
(***************************************************************************)
EXTENDS Integers, Sequences, FiniteSets, TLC

VARIABLES
    notebook,         \* which notebook this run executes
    pc,               \* the statement about to run ("done", "halted" at the end)
    loopIdx,          \* index of the running for loop
    coadds,           \* MultibandExposure: its filters (<<>> before it is loaded)
    subset,           \* coadds[:, sampleBBox]: its filters
    schema,           \* the columns of the Schema object
    tasks,            \* the Tasks constructed so far
    table,            \* SourceCatalog.Table.make(schema)
    catalog,          \* detectionResult.sources
    templateCatalog,  \* deblendTask.run's second result, one catalog per band
    fp,               \* the notebook variable fp
    heapTop,          \* number of table/catalog objects created so far
    runArgs,          \* the object each Task.run call was given, in call order
    log,              \* the pipeline stages in the order they were invoked
    nFigures,         \* number of matplotlib figures created
    lastShow,         \* arguments and effects of the last showRGB call
    raised,           \* number of exceptions raised so far
    shared_repos,     \* DataInventory: np.unique of the /project/shared/data listings
    repos,            \* DataInventory: np.unique of the /datasets listings
    printed,          \* DataInventory: repos reported by print("Taster failed ...")
    tarquin,          \* DataInventory: the Taster of line 227
    failed,           \* DataInventory: the Taster of line 275
    env,              \* makeCatalog: the global names bound when it is called
    ret,              \* makeCatalog: how the call ended and what it returned
    var,              \* scarlet: subset.variance.array, one pixel per band
    weights,          \* scarlet: the weights computed at line 908
    frame,            \* scarlet: scarlet.Frame
    observation,      \* scarlet: scarlet.Observation
    cat,              \* scarlet: the detection catalog read from cat.pkl
    plotted,          \* scarlet: the markers imshow_rgb drew, as <<abscissa, ordinate>>
    sources,          \* scarlet: the list of sources
    blend,            \* scarlet: scarlet.Blend
    fsys,             \* listing: the folders of the data directory and what they hold
    repository,       \* butler: the deepCoadd_ref tables of the repository, by data id
    data_id,          \* butler: data_id
    data_entry,       \* butler: data_entry
    new_data_id,      \* butler: new_data_id
    merged_i_data,    \* butler: merged_i_data
    written           \* the files the cells have written

vars == <<notebook, pc, loopIdx, coadds, subset, schema, tasks, table, catalog,
          templateCatalog, fp, heapTop, runArgs, log, nFigures, lastShow, raised,
          shared_repos, repos, printed, tarquin, failed,
          env, ret, var, weights, frame, observation, cat, plotted, sources, blend,
          fsys, repository, data_id, data_entry, new_data_id, merged_i_data, written>>

\* The variables of the Taster cells of DataInventory.ipynb.
tasterVars == <<tarquin, failed>>

\* The variables of one call of makeCatalog.
callVars == <<env, ret>>

\* The variables of the scarlet notebook.
scarletVars == <<var, weights, frame, observation, cat, plotted, sources, blend>>

\* The variables of the Butler notebook.
butlerVars == <<repository, data_id, data_entry, new_data_id, merged_i_data>>

\* The variables the deblender notebook and the listing cells never touch.
otherVars == <<tasterVars, callVars, scarletVars, fsys, butlerVars, written>>

\* The notebook variables showRGB is handed or could reach as globals.
notebookVars == <<coadds, subset, schema, tasks, table, catalog, templateCatalog,
                  fp, heapTop, runArgs, shared_repos, repos, printed>>

(***************************************************************************)
(* Bounds of the model.                                                    *)
(***************************************************************************)
MaxSources == 14   \* detection finds 0..MaxSources footprints
MaxPeaks == 3      \* a footprint has 1..MaxPeaks peaks
MaxBlends == 1     \* at most MaxBlends footprints of a catalog have several peaks
MaxFolders == 2    \* folders under a shared data directory
MaxDatas == 2      \* len(datas) is 0..MaxDatas where a caller has bound datas
MaxVar == 2        \* a pixel's variance is 1..MaxVar
MaxCat == 2        \* cat.pkl holds 0..MaxCat detections
MaxRows == 2       \* a deepCoadd_ref table has 0..MaxRows rows

(***************************************************************************)
(* Program constants.                                                      *)
(***************************************************************************)
filters == <<"g", "r", "i", "z", "y">>
parentIdx == 13

Bands == {filters[k] : k \in 1..Len(filters)}
SeqToSet(s) == {s[k] : k \in 1..Len(s)}

(***************************************************************************)
(* Multiband objects.  A MultibandImage is modelled by the sequence of its *)
(* filter names; the array of band f of an image is named by f.            *)
(***************************************************************************)
IndexOf(s, f) == CHOOSE k \in 1..Len(s) : s[k] = f

\* coadds[a:b] with filter names as slice bounds: from a up to, not including, b.
FilterSliceTo(s, b) == SubSeq(s, 1, IndexOf(s, b) - 1)
FilterSliceFrom(s, a) == SubSeq(s, IndexOf(s, a), Len(s))

(***************************************************************************)
(* Footprints and peaks.                                                   *)
(***************************************************************************)
NoneFp == [none |-> TRUE, peaks |-> <<>>]

\* The footprint detection attaches to catalog row i (0-based) with n peaks.
\* The peak positions are inputs; each row gets positions of its own, with
\* ix # iy.
Footprint(i, n) ==
    [none |-> FALSE,
     peaks |-> [j \in 1..n |-> [ix |-> i, iy |-> 100 + j]]]

NoneAx == [none |-> TRUE, id |-> 0]
Ax(k) == [none |-> FALSE, id |-> k]

(***************************************************************************)
(* showRGB (part_000 lines 171-216).                                       *)
(***************************************************************************)
\* astropy's make_lupton_rgb: the composite is a function of the three arrays
\* in their channel positions.
make_lupton_rgb(image_r, image_g, image_b) ==
    [r |-> image_r, g |-> image_g, b |-> image_b]

ThreeBandsAtLeast(image) == Len(image) >= 3
\* lines 196-198: an image of exactly three bands supplies bgr itself.
ThreeBands(image) == Len(image) = 3

bgrUsed(image, bgr) == IF ThreeBands(image) THEN image ELSE bgr

ChannelsUnreversed(image, bgr) ==
    make_lupton_rgb(bgr[1], bgr[2], bgr[3])
\* lines 200-203: red is bgr[2], green bgr[1], blue bgr[0] (0-based).
Channels(image, bgr) ==
    make_lupton_rgb(bgr[3], bgr[2], bgr[1])

PeakMarkersSwapped(f) ==
    [j \in 1..Len(f.peaks) |-> <<"plot", f.peaks[j].iy, f.peaks[j].ix>>]
\* lines 214-216: one ax.plot per peak of fp.getPeaks(), none when fp is None.
PeakMarkers(f) ==
    IF f.none THEN <<>>
    ELSE [j \in 1..Len(f.peaks) |-> <<"plot", f.peaks[j].ix, f.peaks[j].iy>>]

NewFigureAlways(ax) == TRUE
\* lines 204-206: a figure is created only when ax is None.
NewFigure(ax) == ax.none

\* image[f] raises KeyError for a filter the image does not have.
HasBands(image, bgr) == \A k \in 1..3 : bgr[k] \in SeqToSet(image)

NoShow ==
    [called |-> FALSE, image |-> <<>>, bgr |-> <<>>, ax |-> NoneAx, fp |-> NoneFp,
     raised |-> FALSE, rgb |-> make_lupton_rgb("", "", ""), newFigure |-> FALSE,
     ops |-> <<>>]

\* The call's arguments and what it did: the composite, whether a figure was
\* created, and the drawing calls made on the axes, in order.
showRGB(image, bgr, ax, f) ==
    LET used == bgrUsed(image, bgr) IN
    IF ~HasBands(image, used)
    THEN [NoShow EXCEPT !.called = TRUE, !.image = image, !.bgr = bgr, !.ax = ax,
                        !.fp = f, !.raised = TRUE]
    ELSE [called |-> TRUE, image |-> image, bgr |-> bgr, ax |-> ax, fp |-> f,
          raised |-> FALSE,
          rgb |-> Channels(image, used),
          newFigure |-> NewFigure(ax),
          ops |-> <<<<"imshow", 0, 0>>>> \o PeakMarkers(f)]

(***************************************************************************)
(* Schema, tasks, tables and catalogs (part_000 lines 288-375).            *)
(***************************************************************************)
\* line 331: SourceCatalog.Table.makeMinimalSchema()
makeMinimalSchema == {"id", "coord", "parent"}

\* The columns a Task adds to the schema it is constructed with (lines 315,
\* 342, 484): detection its flags, the deblender the deblend_ columns,
\* measurement the columns of the configured plugins.
TaskColumns(task) ==
    CASE task = "detectionTask" -> {"flags_negative"}
      [] task = "deblendTask" -> {"deblend_nChild"}
      [] task = "measureTask" -> {"base_SdssCentroid", "base_PsfFlux", "base_SkyCoord"}

AllTasks == {"detectionTask", "deblendTask", "measureTask"}
CompleteSchema == makeMinimalSchema \cup UNION {TaskColumns(t) : t \in AllTasks}

NoTable == [obj |-> 0, schema |-> {}]
NoCatalog == [obj |-> 0, schema |-> {}, rows |-> <<>>, measured |-> FALSE]

\* The catalog detection returns on a footprint list (lines 292, 399): one
\* parent row per footprint; only the ids are filled, the other columns are 0.
\* peaks[i] is the number of peaks of footprint i (1-based here, row i-1).
DetectedRows(peaks) ==
    [i \in 1..Len(peaks) |->
        [id |-> i, parent |-> 0, deblend_nChild |-> 0,
         footprint |-> Footprint(i - 1, peaks[i])]]

\* The footprint lists detection may return: n footprints, of which those in
\* blends have p peaks and the others one.
FootprintLists ==
    UNION {{[i \in 1..n |-> IF i \in blends THEN p ELSE 1] :
              blends \in {B \in SUBSET (1..n) : Cardinality(B) <= MaxBlends},
              p \in 2..MaxPeaks} :
           n \in 0..MaxSources}

(***************************************************************************)
(* ScarletDeblendTask.run as the notebook describes it (lines 293, 482-487)*)
(***************************************************************************)
NPeaks(row) == Len(row.footprint.peaks)

IsBlendAny(row) == NPeaks(row) >= 1
\* line 293: "every Footprint that contains more than one peak"
IsBlend(row) == NPeaks(row) > 1

RECURSIVE ChildCountBefore(_, _)
\* Number of children made for rows 1..i-1.
ChildCountBefore(rows, i) ==
    IF i <= 1 THEN 0
    ELSE ChildCountBefore(rows, i - 1)
         + (IF IsBlend(rows[i - 1]) THEN NPeaks(rows[i - 1]) ELSE 0)

ChildRowsOrphaned(rows, i) ==
    IF ~IsBlend(rows[i]) THEN <<>>
    ELSE [k \in 1..NPeaks(rows[i]) |->
            [id |-> Len(rows) + ChildCountBefore(rows, i) + k,
             parent |-> 0,
             deblend_nChild |-> 0,
             footprint |-> [none |-> FALSE, peaks |-> <<rows[i].footprint.peaks[k]>>]]]
\* lines 293, 486: a child row for each peak of a blended parent, with parent
\* the id of the row it was deblended from.
ChildRows(rows, i) ==
    IF ~IsBlend(rows[i]) THEN <<>>
    ELSE [k \in 1..NPeaks(rows[i]) |->
            [id |-> Len(rows) + ChildCountBefore(rows, i) + k,
             parent |-> rows[i].id,
             deblend_nChild |-> 0,
             footprint |-> [none |-> FALSE, peaks |-> <<rows[i].footprint.peaks[k]>>]]]

RECURSIVE AllChildRows(_, _)
AllChildRows(rows, i) ==
    IF i > Len(rows) THEN <<>> ELSE ChildRows(rows, i) \o AllChildRows(rows, i + 1)

\* lines 484, 487: the parent rows stay, with deblend_nChild their number of children.
ParentRows(rows) ==
    [i \in 1..Len(rows) |->
        [rows[i] EXCEPT !.deblend_nChild = IF IsBlend(rows[i]) THEN NPeaks(rows[i]) ELSE 0]]

DeblendedRows(rows) == ParentRows(rows) \o AllChildRows(rows, 1)

\* line 557: templateCatalog[b][templateCatalog[b].get("parent") == parentId]
SelectByParent(rows, parentId) ==
    LET keep == {k \in 1..Len(rows) : rows[k].parent = parentId}
        RECURSIVE Pick(_)
        Pick(k) == IF k > Len(rows) THEN <<>>
                   ELSE (IF k \in keep THEN <<rows[k]>> ELSE <<>>) \o Pick(k + 1)
    IN Pick(1)

templateChildren(b) ==
    SelectByParent(templateCatalog[b].rows, templateCatalog["r"].rows[parentIdx + 1].id)

(***************************************************************************)
(* The deblender notebook, statement by statement (part_000 lines 1-637).  *)
(* A label L<n> is the statement at line n of part_000.                    *)
(***************************************************************************)
ProgramMeasureFirst ==
    <<"L97", "L132", "L232", "L241", "L267", "L281", "L331", "L333", "L337",
      "L352", "L372", "L373", "L408", "L453", "L505", "L506", "L475", "L524",
      "L548", "L559", "L568", "L585", "L587", "L588", "done">>
ProgramTableFirst ==
    <<"L97", "L132", "L232", "L241", "L267", "L281", "L331", "L333", "L337",
      "L372", "L352", "L373", "L408", "L453", "L475", "L505", "L506", "L524",
      "L548", "L559", "L568", "L585", "L587", "L588", "done">>
\* The statements in the order of the notebook's cells.
Program ==
    <<"L97", "L132", "L232", "L241", "L267", "L281", "L331", "L333", "L337",
      "L352", "L372", "L373", "L408", "L453", "L475", "L505", "L506", "L524",
      "L548", "L559", "L568", "L585", "L587", "L588", "done">>

After(l) == Program[IndexOf(Program, l) + 1]

bgrDefault == <<"g", "r", "i">>

plotVars == <<nFigures, lastShow>>
pipeVars == <<schema, tasks, table, catalog, templateCatalog, heapTop, runArgs>>
imgVars == <<coadds, subset>>
invVars == <<shared_repos, repos, printed>>

\* The stage log keeps one entry per run of consecutive calls of a stage.
LogStage(s) == IF log # <<>> /\ log[Len(log)] = s THEN log ELSE Append(log, s)

\* A statement that only binds names the model does not follow.
Skip(l) ==
    /\ pc = l
    /\ pc' = After(l)
    /\ UNCHANGED <<notebook, otherVars, loopIdx, fp, log, raised>>
    /\ UNCHANGED <<imgVars, pipeVars, plotVars, invVars>>

\* A call showRGB(image, bgr, ax, f) at label l, continuing at next.
Show(l, image, bgr, ax, f, next) ==
    /\ pc = l
    /\ LET s == showRGB(image, bgr, ax, f) IN
        /\ lastShow' = s
        /\ IF s.raised
           THEN /\ pc' = "halted"
                /\ raised' = raised + 1
                /\ UNCHANGED <<nFigures, log>>
           ELSE /\ pc' = next
                /\ nFigures' = nFigures + (IF s.newFigure THEN 1 ELSE 0)
                /\ log' = LogStage("plotting")
                /\ UNCHANGED raised
    /\ UNCHANGED <<notebook, otherVars, loopIdx, fp>>
    /\ UNCHANGED <<imgVars, pipeVars, invVars>>

\* line 97: butler = desc_dc2_dm_data.get_butler("2.2i_dr6_wfd")
GetButler == Skip("L97")

\* lines 131-133: the coadds of the five bands are read through the butler.
GetCoadds ==
    /\ pc = "L132"
    /\ coadds' = filters
    /\ log' = LogStage("retrieval")
    /\ pc' = After("L132")
    /\ UNCHANGED <<notebook, otherVars, loopIdx, fp, raised, subset>>
    /\ UNCHANGED <<pipeVars, plotVars, invVars>>

\* line 232: showRGB(coadds[:"z"].image, figsize=(10, 10))
ShowCoaddsToZ ==
    Show("L232", FilterSliceTo(coadds, "z"), bgrDefault, NoneAx, NoneFp, After("L232"))

\* line 241: showRGB(coadds["i":].image, figsize=(10, 10))
ShowCoaddsFromI ==
    Show("L241", FilterSliceFrom(coadds, "i"), bgrDefault, NoneAx, NoneFp, After("L241"))

\* lines 259-272: subset = coadds[:, sampleBBox]
MakeSubset ==
    /\ pc = "L267"
    /\ subset' = coadds
    /\ pc' = After("L267")
    /\ UNCHANGED <<notebook, otherVars, loopIdx, fp, log, raised, coadds>>
    /\ UNCHANGED <<pipeVars, plotVars, invVars>>

\* line 281: showRGB(subset.image)
ShowSubset ==
    Show("L281", subset, bgrDefault, NoneAx, NoneFp, After("L281"))

\* line 331: schema = SourceCatalog.Table.makeMinimalSchema()
MakeSchema ==
    /\ pc = "L331"
    /\ schema' = makeMinimalSchema
    /\ pc' = After("L331")
    /\ UNCHANGED <<notebook, otherVars, loopIdx, fp, log, raised>>
    /\ UNCHANGED <<tasks, table, catalog, templateCatalog, heapTop, runArgs>>
    /\ UNCHANGED <<imgVars, plotVars, invVars>>

\* lines 333, 335-337, 341-352: a Task constructed with schema=schema adds
\* its columns to that schema.
Construct(l, task) ==
    /\ pc = l
    /\ schema' = schema \cup TaskColumns(task)
    /\ tasks' = tasks \cup {task}
    /\ pc' = After(l)
    /\ UNCHANGED <<notebook, otherVars, loopIdx, fp, log, raised>>
    /\ UNCHANGED <<table, catalog, templateCatalog, heapTop, runArgs>>
    /\ UNCHANGED <<imgVars, plotVars, invVars>>

ConstructDetection == Construct("L333", "detectionTask")
ConstructDeblend == Construct("L337", "deblendTask")
ConstructMeasure == Construct("L352", "measureTask")

\* line 372: table = SourceCatalog.Table.make(schema)
MakeTable ==
    /\ pc = "L372"
    /\ table' = [obj |-> heapTop + 1, schema |-> schema]
    /\ heapTop' = heapTop + 1
    /\ pc' = After("L372")
    /\ UNCHANGED <<notebook, otherVars, loopIdx, fp, log, raised>>
    /\ UNCHANGED <<schema, tasks, catalog, templateCatalog, runArgs>>
    /\ UNCHANGED <<imgVars, plotVars, invVars>>

\* lines 373-374: detectionResult = detectionTask.run(table, subset["r"]);
\* catalog = detectionResult.sources, a new SourceCatalog of the table.
RunDetection ==
    /\ pc = "L373"
    /\ \E peaks \in FootprintLists :
        catalog' = [obj |-> heapTop + 1, schema |-> table.schema,
                    rows |-> DetectedRows(peaks), measured |-> FALSE]
    /\ heapTop' = heapTop + 1
    /\ runArgs' = Append(runArgs, [task |-> "detectionTask", kind |-> "Table",
                                   obj |-> table.obj, schema |-> table.schema])
    /\ log' = LogStage("detection")
    /\ pc' = After("L373")
    /\ UNCHANGED <<notebook, otherVars, loopIdx, fp, raised>>
    /\ UNCHANGED <<schema, tasks, table, templateCatalog>>
    /\ UNCHANGED <<imgVars, plotVars, invVars>>

\* line 408: footprint = catalog[0].getFootprint(); an empty catalog has no row 0.
FirstFootprint ==
    /\ Len(catalog.rows) > 0
    /\ Skip("L408")

\* lines 453-456: for src in catalog: fp = src.getFootprint(); img = ...; mfp = ...
ForSrc ==
    /\ pc = "L453"
    /\ IF loopIdx < Len(catalog.rows)
       THEN /\ fp' = catalog.rows[loopIdx + 1].footprint
            /\ loopIdx' = loopIdx + 1
            /\ pc' = "L457"
       ELSE /\ loopIdx' = 0
            /\ pc' = After("L453")
            /\ UNCHANGED fp
    /\ UNCHANGED <<notebook, otherVars, log, raised>>
    /\ UNCHANGED <<imgVars, pipeVars, plotVars, invVars>>

\* line 457: showRGB(mfp.getImage().image, fp=fp, figsize=(3,3)); mfp has the
\* filters of coadds.
ShowFootprint ==
    Show("L457", coadds, bgrDefault, NoneAx, fp, "L453")

\* line 475: _, templateCatalog = deblendTask.run(coadds, catalog): a catalog per
\* band of coadds, holding the parents and the children.
RunDeblend ==
    /\ pc = "L475"
    /\ templateCatalog' =
          [b \in Bands |->
              [obj |-> heapTop + IndexOf(filters, b), schema |-> catalog.schema,
               rows |-> DeblendedRows(catalog.rows), measured |-> FALSE]]
    /\ heapTop' = heapTop + Len(filters)
    /\ runArgs' = Append(runArgs, [task |-> "deblendTask", kind |-> "SourceCatalog",
                                   obj |-> catalog.obj, schema |-> catalog.schema])
    /\ log' = LogStage("deblending")
    /\ pc' = After("L475")
    /\ UNCHANGED <<notebook, otherVars, loopIdx, fp, raised>>
    /\ UNCHANGED <<schema, tasks, table, catalog>>
    /\ UNCHANGED <<imgVars, plotVars, invVars>>

MeasureArgCatalog(b) == catalog
\* lines 505-506: the catalog handed to measureTask.run for band b.
MeasureArg(b) == templateCatalog[b]

\* lines 505, 506: measureTask.run(templateCatalog[b], coadds[b])
RunMeasure(l, b) ==
    /\ pc = l
    /\ runArgs' = Append(runArgs, [task |-> "measureTask", kind |-> "SourceCatalog",
                                   obj |-> MeasureArg(b).obj,
                                   schema |-> MeasureArg(b).schema])
    /\ templateCatalog' = [templateCatalog EXCEPT ![b].measured = TRUE]
    /\ log' = LogStage("measurement")
    /\ pc' = After(l)
    /\ UNCHANGED <<notebook, otherVars, loopIdx, fp, raised>>
    /\ UNCHANGED <<schema, tasks, table, catalog, heapTop>>
    /\ UNCHANGED <<imgVars, plotVars, invVars>>

MeasureR == RunMeasure("L505", "r")
MeasureI == RunMeasure("L506", "i")

\* lines 522-527: every band's catalog is replaced by a deep copy of itself.
CopyCatalogs ==
    /\ pc = "L524"
    /\ templateCatalog' =
          [b \in Bands |->
              [templateCatalog[b] EXCEPT !.obj = heapTop + IndexOf(filters, b)]]
    /\ heapTop' = heapTop + Len(filters)
    /\ pc' = After("L524")
    /\ UNCHANGED <<notebook, otherVars, loopIdx, fp, log, raised>>
    /\ UNCHANGED <<schema, tasks, table, catalog, runArgs>>
    /\ UNCHANGED <<imgVars, plotVars, invVars>>

\* lines 543-557: templateCatalog["r"][parentIdx] needs a row of that index.
SelectChildren ==
    /\ Len(templateCatalog["r"].rows) > parentIdx
    /\ Skip("L548")

\* lines 559-562: for n in range(len(templateChildren["r"])):
\*     fp = MultibandFootprint(...); templateModel[...] += ...
ForChild ==
    /\ pc = "L559"
    /\ IF loopIdx < Len(templateChildren("r"))
       THEN /\ fp' = templateChildren("r")[loopIdx + 1].footprint
            /\ loopIdx' = loopIdx + 1
            /\ pc' = "L565"
       ELSE /\ loopIdx' = 0
            /\ pc' = After("L559")
            /\ UNCHANGED fp
    /\ UNCHANGED <<notebook, otherVars, log, raised>>
    /\ UNCHANGED <<imgVars, pipeVars, plotVars, invVars>>

\* lines 565-566: showRGB(fp.getImage().image); plt.show()
ShowChild ==
    Show("L565", coadds, bgrDefault, NoneAx, NoneFp, "L559")

\* lines 568-569: templateResidual = ...
MakeResidual == Skip("L568")

\* lines 585-586: fig = plt.figure(figsize=(15,10)); ax = [fig.add_subplot(...) ...]
MakeFigure ==
    /\ pc = "L585"
    /\ nFigures' = nFigures + 1
    /\ pc' = After("L585")
    /\ UNCHANGED <<notebook, otherVars, loopIdx, fp, log, raised, lastShow>>
    /\ UNCHANGED <<imgVars, pipeVars, invVars>>

\* line 587: showRGB(coadds[:,fp.getBBox()].image, ax=ax[0])
ShowScene == Show("L587", coadds, bgrDefault, Ax(1), NoneFp, After("L587"))

\* line 588: showRGB(templateModel, ax=ax[1])
ShowModel == Show("L588", coadds, bgrDefault, Ax(2), NoneFp, After("L588"))

(***************************************************************************)
(* DataInventory.ipynb.  A label D<n> is the statement at line n.          *)
(***************************************************************************)
InventoryProgram ==
    <<"D52", "D138", "D151", "D169", "D227", "D275", "D300", "D511", "D540",
      "D562", "D576", "done">>

\* notebook = "listing" runs the two listing cells alone, on a data directory
\* whose content is known.
AfterD(l) ==
    IF notebook = "listing"
    THEN (IF l = "D138" THEN "D169" ELSE "done")
    ELSE InventoryProgram[IndexOf(InventoryProgram, l) + 1]

\* What `python setup.py -q develop --user` leaves behind: the package's
\* metadata folder and the link to it in the user's site-packages.
InstallWrites == {"stackclub.egg-info", "stackclub.egg-link"}

\* line 52: ! cd .. && python setup.py -q develop --user && cd -
Install ==
    /\ pc = "D52"
    /\ written' = written \cup InstallWrites
    /\ pc' = AfterD("D52")
    /\ UNCHANGED <<notebook, tasterVars, callVars, scarletVars, fsys, butlerVars>>
    /\ UNCHANGED <<loopIdx, fp, log, raised, imgVars, pipeVars, plotVars, invVars>>

Markers == {"_mapper", "repositoryCfg.yaml"}

RECURSIVE SortedSeq(_)
\* The elements of a set of folder names in increasing order.
SortedSeq(S) ==
    IF S = {} THEN <<>>
    ELSE LET m == CHOOSE x \in S : \A y \in S : x <= y
         IN <<m>> \o SortedSeq(S \ {m})

\* A data directory: the marker files each folder holds, and whether the
\* folder's name contains README.
FileSystems == [1..MaxFolders -> [markers : SUBSET Markers, readme : BOOLEAN]]

\* "ls: cannot access '<dir>/*/<marker>': No such file or directory"; as a
\* string it sorts after every path.
NoSuchLine(marker) == MaxFolders + (IF marker = "_mapper" THEN 1 ELSE 2)

\* ls -d <dir>/*/<marker>: the paths it writes to stdout, cut to the folder ...
LsOut(fs, marker) == {d \in DOMAIN fs : marker \in fs[d].markers}

\* ... and the line it writes to stderr when the pattern matches nothing.
LsErr(fs, marker) == IF LsOut(fs, marker) = {} THEN {NoSuchLine(marker)} ELSE {}

\* x = ! ls -d <dir>/*/<marker> ... | sort | uniq, the lines the shell prints:
\* line 169 pipes stderr too (|&) and drops the "No such" line; line 138 pipes
\* stdout alone, drops the paths containing README, and stderr goes unfiltered
\* into the captured lines.
ListWith(fs, marker, piped) ==
    SortedSeq(IF piped
              THEN LsOut(fs, marker)
              ELSE {d \in LsOut(fs, marker) : ~fs[d].readme} \cup LsErr(fs, marker))

\* np.unique(a + b): the sorted distinct elements of the concatenation.
np_unique(s) == SortedSeq(SeqToSet(s))

\* lines 138-140 and 169-171
ListRepos(fs, piped) ==
    np_unique(ListWith(fs, "_mapper", piped)
              \o ListWith(fs, "repositoryCfg.yaml", piped))

\* The directory a listing cell lists.
Listed == IF notebook = "listing" THEN {fsys} ELSE FileSystems

ListShared ==
    /\ pc = "D138"
    /\ \E fs \in Listed : shared_repos' = ListRepos(fs, FALSE)
    /\ pc' = AfterD("D138")
    /\ UNCHANGED <<notebook, otherVars, loopIdx, fp, log, raised, repos, printed>>
    /\ UNCHANGED <<imgVars, pipeVars, plotVars>>

ListDatasets ==
    /\ pc = "D169"
    /\ \E fs \in Listed : repos' = ListRepos(fs, TRUE)
    /\ pc' = AfterD("D169")
    /\ UNCHANGED <<notebook, otherVars, loopIdx, fp, log, raised, shared_repos, printed>>
    /\ UNCHANGED <<imgVars, pipeVars, plotVars>>

\* A name no statement has bound yet.
NoTaster == [made |-> FALSE, isRepo |-> FALSE, butler |-> "None"]

TasterButlerAlways(isRepo) == [made |-> TRUE, isRepo |-> isRepo, butler |-> "Butler"]
\* stackclub.Taster(repo, vb=True): the Taster carries a Butler of the repo; on
\* a folder that is not a repo the constructor returns normally and the butler
\* is None (markdown at lines 250 and 266).
Taster(isRepo) ==
    [made |-> TRUE, isRepo |-> isRepo, butler |-> IF isRepo THEN "Butler" ELSE "None"]

\* lines 227 and 236: tarquin = stackclub.Taster(repo, vb=True[, path_to_tracts=...])
\* with repo = '/datasets/hsc/repo/', a repository or not on the machine at hand.
MakeTarquin ==
    /\ pc = "D227"
    /\ \E isRepo \in BOOLEAN : tarquin' = Taster(isRepo)
    /\ pc' = AfterD("D227")
    /\ UNCHANGED <<notebook, callVars, scarletVars, fsys, butlerVars, written, loopIdx, fp, log, raised, failed>>
    /\ UNCHANGED <<imgVars, pipeVars, plotVars, invVars>>

\* line 275: failed = stackclub.Taster('not-a-repo', vb=True)
MakeFailed ==
    /\ pc = "D275"
    /\ failed' = Taster(FALSE)
    /\ pc' = AfterD("D275")
    /\ UNCHANGED <<notebook, callVars, scarletVars, fsys, butlerVars, written, loopIdx, fp, log, raised, tarquin>>
    /\ UNCHANGED <<imgVars, pipeVars, plotVars, invVars>>

\* A cell of the inventory whose effects the model does not follow: the du
\* loops (151-152) and the cells that question the Taster (284-540).
InventoryCell ==
    /\ pc \in {"D151", "D300", "D511", "D540"}
    /\ pc' = AfterD(pc)
    /\ UNCHANGED <<notebook, otherVars, loopIdx, fp, log, raised>>
    /\ UNCHANGED <<imgVars, pipeVars, plotVars, invVars>>

InTryNowhere(l) == FALSE
\* lines 563-567 and 577-581: the loop bodies are wrapped in try: ... except:
InTry(l) == l \in {"D562", "D576"}

LoopList(l) == IF l = "D562" THEN shared_repos ELSE repos

\* lines 562-567 and 576-581, one iteration per step:
\*   for repo in ...: try: taster = stackclub.Taster(repo); taster.report()
\*                    except: print("Taster failed to explore repo ", repo)
TasterLoop ==
    /\ pc \in {"D562", "D576"}
    /\ IF loopIdx < Len(LoopList(pc))
       THEN \E ok \in BOOLEAN :
              IF ok
              THEN /\ loopIdx' = loopIdx + 1
                   /\ UNCHANGED <<pc, raised, printed>>
              ELSE /\ raised' = raised + 1
                   /\ IF InTry(pc)
                      THEN /\ printed' = Append(printed, LoopList(pc)[loopIdx + 1])
                           /\ loopIdx' = loopIdx + 1
                           /\ UNCHANGED pc
                      ELSE /\ pc' = "halted"
                           /\ UNCHANGED <<loopIdx, printed>>
       ELSE /\ loopIdx' = 0
            /\ pc' = AfterD(pc)
            /\ UNCHANGED <<raised, printed>>
    /\ UNCHANGED <<notebook, otherVars, fp, log, shared_repos, repos>>
    /\ UNCHANGED <<imgVars, pipeVars, plotVars>>

(***************************************************************************)
(* One call of showRGB with arguments of the caller's choice.              *)
(***************************************************************************)
\* The images coadds[a:b] of at least one band.
CallImages ==
    {SubSeq(filters, a, b) : <<a, b>> \in {<<a, b>> \in (1..Len(filters)) \X (1..Len(filters)) : a <= b}}
CallBgrs == [1..3 -> Bands]
CallFps == {NoneFp} \cup {Footprint(7, n) : n \in 0..MaxPeaks}

CallShowRGB ==
    /\ pc = "call"
    /\ \E image \in CallImages, bgr \in CallBgrs, f \in CallFps,
          ax \in {NoneAx} \cup {Ax(k) : k \in 1..nFigures} :
          Show("call", image, bgr, ax, f, "done")

(***************************************************************************)
(* The scarlet notebook (part_000 lines 639-1242).  notebook = "weights"    *)
(* runs its cells at lines 907-944 alone, with the variance of one pixel    *)
(* per band followed; the whole run does not follow pixel values.          *)
(***************************************************************************)
\* line 747: filters = "ugrizy"
ScarletFilters == <<"u", "g", "r", "i", "z", "y">>

ScarletProgramSourcesFirst ==
    <<"L748", "L838", "L908", "L941", "L944", "L962", "L1054", "L1055", "L1085",
      "L1100", "L1129", "L1161", "L963", "L964", "L1179", "L1199", "done">>

\* The code cells of the scarlet notebook followed here, in order.
ScarletProgram ==
    <<"L748", "L838", "L908", "L941", "L944", "L962", "L963", "L964", "L1054",
      "L1055", "L1085", "L1100", "L1129", "L1161", "L1179", "L1199", "done">>

AfterS(l) ==
    IF notebook = "weights" /\ l = "L944" THEN "done"
    ELSE ScarletProgram[IndexOf(ScarletProgram, l) + 1]

\* What the scarlet notebook never touches.
restVars == <<notebook, tasterVars, callVars, fsys, butlerVars, written, fp, log, pipeVars, plotVars, invVars>>

NoFrame == [made |-> FALSE, channels |-> <<>>]
NoObservation == [made |-> FALSE, channels |-> <<>>, weights |-> <<>>, diff_kernels |-> "None"]
NoBlend == [made |-> FALSE, sources |-> <<>>, matched |-> FALSE, loss |-> 0, converged |-> FALSE]

\* lines 745-749: coadds = MultibandExposure.fromExposures(filters, coadds)
GetScarletCoadds ==
    /\ pc = "L748"
    /\ coadds' = ScarletFilters
    /\ pc' = AfterS("L748")
    /\ UNCHANGED <<restVars, scarletVars, loopIdx, raised, subset>>

\* line 838: subset = coadds[:, sampleBBox]
MakeScarletSubset ==
    /\ pc = "L838"
    /\ subset' = coadds
    /\ pc' = AfterS("L838")
    /\ UNCHANGED <<restVars, scarletVars, loopIdx, raised, coadds>>

\* A fraction num / den.
Fraction(num, den) == [num |-> num, den |-> den]

\* lines 907-908: var = subset.variance.array; weights = 1 / (var ** 2)
MakeWeights ==
    /\ pc = "L908"
    /\ weights' = [b \in DOMAIN var |-> Fraction(1, var[b] * var[b])]
    /\ pc' = AfterS("L908")
    /\ UNCHANGED <<restVars, loopIdx, raised, coadds, subset>>
    /\ UNCHANGED <<var, frame, observation, cat, plotted, sources, blend>>

\* line 941: frame = scarlet.Frame(images.shape, psfs=model_psf, channels=filters)
MakeFrame ==
    /\ pc = "L941"
    /\ frame' = [made |-> TRUE, channels |-> ScarletFilters]
    /\ pc' = AfterS("L941")
    /\ UNCHANGED <<restVars, loopIdx, raised, coadds, subset>>
    /\ UNCHANGED <<var, weights, observation, cat, plotted, sources, blend>>

\* line 944: observation = scarlet.Observation(images, psfs=..., channels=filters,
\* weights=weights); line 960: "Initially the diff kernel is initialised to None"
MakeObservation ==
    /\ pc = "L944"
    /\ observation' = [made |-> TRUE, channels |-> ScarletFilters,
                       weights |-> weights, diff_kernels |-> "None"]
    /\ pc' = AfterS("L944")
    /\ UNCHANGED <<restVars, loopIdx, raised, coadds, subset>>
    /\ UNCHANGED <<var, weights, frame, cat, plotted, sources, blend>>

\* lines 962-963: observation.match(frame) instantiates the diff kernel
Match ==
    /\ pc = "L963"
    /\ observation' = [observation EXCEPT !.diff_kernels = "Kernel"]
    /\ pc' = AfterS("L963")
    /\ UNCHANGED <<restVars, loopIdx, raised, coadds, subset>>
    /\ UNCHANGED <<var, weights, frame, cat, plotted, sources, blend>>

\* line 964: imshow_rgb(observation._diff_kernels.image, norm=psf_norm); None
\* has no attribute image.
ShowKernel ==
    /\ pc = "L964"
    /\ IF observation.diff_kernels = "None"
       THEN pc' = "halted" /\ raised' = raised + 1
       ELSE pc' = AfterS("L964") /\ UNCHANGED raised
    /\ UNCHANGED <<restVars, scarletVars, loopIdx, coadds, subset>>

\* Cells whose effects the model does not follow: the print of line 962 and
\* the displays of lines 1100-1108 and 1199-1205.
ScarletCell ==
    /\ pc \in {"L962", "L1100", "L1199"}
    /\ pc' = AfterS(pc)
    /\ UNCHANGED <<restVars, scarletVars, loopIdx, raised, coadds, subset>>

\* Pixel coordinates of a detection; two values tell x from y.
Coordinates == {1, 2}

\* The catalogs cat.pkl may hold: rows with columns x and y.
Cats == UNION {[1..k -> [x : Coordinates, y : Coordinates]] : k \in 0..MaxCat}

\* lines 1053-1054: cat = pickle.load(open('cat.pkl', 'rb'))
LoadCat ==
    /\ pc = "L1054"
    /\ cat' \in Cats
    /\ pc' = AfterS("L1054")
    /\ UNCHANGED <<restVars, loopIdx, raised, coadds, subset>>
    /\ UNCHANGED <<var, weights, frame, observation, plotted, sources, blend>>

\* lines 813-815: plt.plot(cat['x'], cat['y'], 'wx', markersize = 15)
Markers_xy(c) == [i \in 1..Len(c) |-> <<c[i].x, c[i].y>>]

\* line 1055: imshow_rgb(images, figsize = (20,20), cat = cat)
ShowCat ==
    /\ pc = "L1055"
    /\ plotted' = Markers_xy(cat)
    /\ pc' = AfterS("L1055")
    /\ UNCHANGED <<restVars, loopIdx, raised, coadds, subset>>
    /\ UNCHANGED <<var, weights, frame, observation, cat, sources, blend>>

ExtendedSourceXY(f, c, obs) ==
    [kind |-> "ExtendedSource", center |-> <<c.x, c.y>>,
     matched |-> obs.diff_kernels # "None"]
\* line 1085: scarlet.ExtendedSource(frame, (c['y'], c['x']), observation);
\* center is (y, x), and the source is initialised from the observation as
\* it is at that moment.
ExtendedSource(f, c, obs) ==
    [kind |-> "ExtendedSource", center |-> <<c.y, c.x>>,
     matched |-> obs.diff_kernels # "None"]

\* line 1085: sources = [scarlet.ExtendedSource(...) for c in cat]
MakeSources ==
    /\ pc = "L1085"
    /\ sources' = [i \in 1..Len(cat) |-> ExtendedSource(frame, cat[i], observation)]
    /\ pc' = AfterS("L1085")
    /\ UNCHANGED <<restVars, loopIdx, raised, coadds, subset>>
    /\ UNCHANGED <<var, weights, frame, observation, cat, plotted, blend>>

\* lines 1129-1143, an exercise: the cell as written does not compile (line
\* 1132), so running it raises SyntaxError before any statement of it runs;
\* here the reader leaves the exercise out and goes on.
SkipExercise ==
    /\ pc = "L1129"
    /\ pc' = AfterS("L1129")
    /\ UNCHANGED <<restVars, scarletVars, loopIdx, raised, coadds, subset>>

\* line 1161: blend = scarlet.Blend(sources, observation)
MakeBlend ==
    /\ pc = "L1161"
    /\ blend' = [made |-> TRUE, sources |-> sources,
                 matched |-> observation.diff_kernels # "None",
                 loss |-> 0, converged |-> FALSE]
    /\ pc' = AfterS("L1161")
    /\ UNCHANGED <<restVars, loopIdx, raised, coadds, subset>>
    /\ UNCHANGED <<var, weights, frame, observation, cat, plotted, sources>>

\* line 1179: the first argument of blend.fit
max_iter == 200

FitStopsOnConvergenceOnly(b) == b.converged
\* lines 1177-1178: "Fit the data until the relative error is <= 1e-3, for a
\* maximum of 200 iterations"
FitStops(b) == b.converged \/ b.loss >= max_iter

\* line 1179: blend.fit(200, e_rel = 1e-3), one iteration per step.  An
\* iteration records its loss; converged says its relative error is <= e_rel.
Fit ==
    /\ pc = "L1179"
    /\ IF FitStops(blend)
       THEN pc' = AfterS("L1179") /\ UNCHANGED blend
       ELSE /\ \E c \in BOOLEAN :
                 blend' = [blend EXCEPT !.loss = @ + 1, !.converged = c]
            /\ UNCHANGED pc
    /\ UNCHANGED <<restVars, loopIdx, raised, coadds, subset>>
    /\ UNCHANGED <<var, weights, frame, observation, cat, plotted, sources>>

(***************************************************************************)
(* One call of makeCatalog (lines 988-1037).  A label M<n> is the statement *)
(* at line n of its body; a statement that reads a name bound neither as a  *)
(* local, nor as a global, nor as a builtin raises NameError.               *)
(***************************************************************************)
\* The globals the scarlet notebook has bound when the cell at line 1053 runs:
\* its imports (lines 686-724) and the assignments of lines 744-944.
NotebookGlobals ==
    {"os", "matplotlib", "plt", "np", "AsinhMapping", "LinearMapping", "scarlet",
     "Starlet", "pickle", "lsst", "Butler", "MultibandExposure",
     "desc_dc2_dm_data", "butler", "dataId", "filters", "coadds", "norm",
     "rgb_patch", "imshow_rgb", "n", "sampleBBox", "subset", "images", "psfs",
     "psf_norm", "var", "weights", "channels", "model_psf", "frame",
     "observation", "makeCatalog"}

\* Names the body reads that the notebook binds nowhere; a caller may have.
MissingNames == {"sep", "datas", "mad_wavelet"}

Builtins == {"len"}

\* line 988: def makeCatalog(cube, lvl=3, wave=True)
Parameters == {"cube", "lvl", "wave"}

Stmt(reads, binds) == [reads |-> reads, binds |-> binds]

\* What each statement of the body reads and binds.
Body ==
    [l \in {"M1008", "M1010", "M1011", "M1014", "M1015", "M1016", "M1019",
            "M1021", "M1022", "M1023", "M1025", "M1027", "M1028", "M1030",
            "M1031", "M1033", "M1034", "M1035", "M1037"} |->
        CASE l = "M1008" -> Stmt({"np", "cube"}, {"detect_image"})
          [] l = "M1010" -> Stmt({"np", "detect_image"}, {})
          [] l = "M1011" -> Stmt({"wave"}, {})
          [] l = "M1014" -> Stmt({"Starlet", "detect_image"}, {"wave_detect"})
          [] l = "M1015" -> Stmt({"wave_detect"}, {})
          [] l = "M1016" -> Stmt({"Starlet", "wave_detect"}, {"detect"})
          [] l = "M1019" -> Stmt({"detect_image"}, {"detect"})
          [] l = "M1021" -> Stmt({"wave"}, {})
          [] l = "M1022" -> Stmt({"Starlet", "detect_image"}, {"wave_detect"})
          [] l = "M1023" -> Stmt({"wave_detect"}, {"detect"})
          [] l = "M1025" -> Stmt({"detect_image"}, {"detect"})
          [] l = "M1027" -> Stmt({"sep", "detect"}, {"bkg"})
          [] l = "M1028" -> Stmt({"sep", "detect", "lvl", "bkg"}, {"catalog"})
          [] l = "M1030" -> Stmt({"len", "datas"}, {})
          [] l = "M1031" -> Stmt({"mad_wavelet", "datas"}, {"bg_rms"})
          [] l = "M1033" -> Stmt({}, {"bg_rms"})
          [] l = "M1034" -> Stmt({"datas"}, {"data"})
          [] l = "M1035" -> Stmt({"bg_rms", "mad_wavelet", "data"}, {})
          [] l = "M1037" -> Stmt({"catalog"}, {})]

RECURSIVE Repeat(_, _)
Repeat(s, k) == IF k = 0 THEN <<>> ELSE s \o Repeat(s, k - 1)

\* The statements a call runs, in order: detect_image has ndim - 1 axes, and
\* the for loop of line 1034 runs nDatas times.
Path(ndim, wave, nDatas) ==
    <<"M1008", "M1010">>
    \o (IF ndim - 1 = 3
        THEN <<"M1011">> \o (IF wave THEN <<"M1014", "M1015", "M1016">> ELSE <<"M1019">>)
        ELSE <<"M1021">> \o (IF wave THEN <<"M1022", "M1023">> ELSE <<"M1025">>))
    \o <<"M1027", "M1028", "M1030">>
    \o (IF nDatas = 1
        THEN <<"M1031">>
        ELSE <<"M1033">> \o Repeat(<<"M1034", "M1035">>, nDatas) \o <<"M1034">>)
    \o <<"M1037">>

\* docstring, lines 1000-1005
DocumentedReturns == <<"catalog", "bg_rms">>

\* line 1037: return catalog
ReturnExpr == <<"catalog">>

NoReturn == [outcome |-> "none", at |-> "", value |-> <<>>]

RECURSIVE Exec(_, _, _, _)
\* Run path from its i-th statement with these locals and globals.
Exec(path, i, locals, globals) ==
    LET l == path[i]
        unbound == Body[l].reads \ (locals \cup globals \cup Builtins)
    IN IF unbound # {}
       THEN [outcome |-> "NameError", at |-> l, value |-> <<>>]
       ELSE IF l = "M1037"
       THEN [outcome |-> "return", at |-> l, value |-> ReturnExpr]
       ELSE Exec(path, i + 1, locals \cup Body[l].binds, globals)

\* line 1053 (commented out there): cat = makeCatalog(images)
CallMakeCatalog ==
    /\ pc = "makeCatalog"
    /\ \E ndim \in {3, 4}, wave \in BOOLEAN, nDatas \in 0..MaxDatas :
          ret' = Exec(Path(ndim, wave, nDatas), 1, Parameters, env)
    /\ pc' = IF ret'.outcome = "return" THEN "done" ELSE "halted"
    /\ raised' = IF ret'.outcome = "return" THEN raised ELSE raised + 1
    /\ UNCHANGED <<notebook, tasterVars, scarletVars, fsys, butlerVars, written, env, loopIdx, fp, log>>
    /\ UNCHANGED <<imgVars, pipeVars, plotVars, invVars>>

(***************************************************************************)
(* The Butler notebook (part_000 lines 2615-2993).  notebook = "get" runs   *)
(* the variant of the cell at lines 2775-2783 that the cell comments out.   *)
(***************************************************************************)
ButlerProgram ==
    <<"L2679", "L2697", "L2714", "L2730", "L2756", "L2783", "L2806", "L2827",
      "L2848", "L2867", "L2875", "L2892", "L2927", "done">>

AfterB(l) == ButlerProgram[IndexOf(ButlerProgram, l) + 1]

\* What the Butler notebook never touches.
butlerRest ==
    <<notebook, tasterVars, callVars, scarletVars, fsys, repository, loopIdx, raised,
      fp, log, imgVars, pipeVars, plotVars, invVars>>

Patches == {"0,0", "1,1"}

\* The complete data ids of deepCoadd_ref (lines 2690 and 2756).
RefIds == [tract : {0}, patch : Patches]

\* A deepCoadd_ref table: its column merge_measurement_i, row by row.
Tables == UNION {[1..k -> BOOLEAN] : k \in 0..MaxRows}

Repositories == [RefIds -> Tables]

NoId == [tract |-> 0, patch |-> ""]
NoData == [made |-> FALSE, rows |-> <<>>]

\* data_id_format = butler.getKeys('deepCoadd_ref')
RefKeys == {"tract", "patch"}

butler_get_selecting(repo, id) ==
    LET rows == repo[[k \in RefKeys |-> id[k]]]
    IN IF "merge_footprint_i" \in DOMAIN id
       THEN SelectSeq(rows, LAMBDA r : r = id["merge_footprint_i"])
       ELSE rows
\* butler.get('deepCoadd_ref', dataId=id): the table of the data id's keys;
\* "if you specify a key that is not part of the data type, the Butler will
\* silently ignore it" (line 2764).
butler_get(repo, id) == repo[[k \in RefKeys |-> id[k]]]

\* lines 2690-2697: data_id = {'tract': 0, 'patch': '1,1'};
\* data_entry = butler.get(dataset_type, dataId=data_id)
GetEntry ==
    /\ pc = "L2697"
    /\ data_id' = [tract |-> 0, patch |-> "1,1"]
    /\ data_entry' = [made |-> TRUE, rows |-> butler_get(repository, data_id')]
    /\ pc' = AfterB("L2697")
    /\ UNCHANGED <<butlerRest, new_data_id, merged_i_data, written>>

\* lines 2782-2784: new_data_id = {'tract': 0, 'patch': '1,1'};
\* merged_i_data = butler.get(dataset_type, dataId=new_data_id);
\* merged_i_data = merged_i_data[merged_i_data['merge_measurement_i']].copy(True)
GetMerged ==
    /\ pc = "L2783"
    /\ new_data_id' = [tract |-> 0, patch |-> "1,1"]
    /\ merged_i_data' =
          [made |-> TRUE,
           rows |-> SelectSeq(butler_get(repository, new_data_id'), LAMBDA r : r)]
    /\ pc' = AfterB("L2783")
    /\ UNCHANGED <<butlerRest, data_id, data_entry, written>>

CutoutWritesFits == {"postage_stamp.fits"}
\* lines 2874-2876: postage_stamp = image.getCutout(radec, cutout_extent);
\* "# postage_stamp.writeFits(<output_filename>)" is a comment.
CutoutWrites == {}

Cutout ==
    /\ pc = "L2875"
    /\ written' = written \cup CutoutWrites
    /\ pc' = AfterB("L2875")
    /\ UNCHANGED <<butlerRest, butlerVars>>

\* Cells whose effects the model does not follow: they construct the Butler,
\* convert, print, list and display what they have read.
ButlerCell ==
    /\ pc \in {"L2679", "L2714", "L2730", "L2756", "L2806", "L2827", "L2848",
               "L2867", "L2892", "L2927"}
    /\ pc' = AfterB(pc)
    /\ UNCHANGED <<butlerRest, butlerVars, written>>

\* lines 2777-2778, commented out there ("An example of what not to do"):
\* new_data_id = {..., 'merge_footprint_i': True};
\* merged_i_data = butler.get(dataset_type, dataId=new_data_id),
\* beside the same call without the extra key, for any data id and value.
CallGet ==
    /\ pc = "get"
    /\ \E d \in RefIds, v \in BOOLEAN :
          /\ data_id' = d
          /\ new_data_id' = d @@ ("merge_footprint_i" :> v)
    /\ data_entry' = [made |-> TRUE, rows |-> butler_get(repository, data_id')]
    /\ merged_i_data' = [made |-> TRUE, rows |-> butler_get(repository, new_data_id')]
    /\ pc' = "done"
    /\ UNCHANGED <<butlerRest, written>>

(***************************************************************************)
(* Exceptions outside a try block: the statement raises and the run halts. *)
(***************************************************************************)
\* The statements that call into the stack, stackclub or matplotlib.
RaisingLabels ==
    (SeqToSet(Program) \cup {"L457", "L565"}
        \cup {"D227", "D300", "D511", "D540"}
        \cup (SeqToSet(ScarletProgram) \ {"L908", "L962"})
        \cup SeqToSet(ButlerProgram)) \ {"done"}

Raise ==
    /\ pc \in RaisingLabels
    /\ pc' = "halted"
    /\ raised' = raised + 1
    /\ UNCHANGED <<notebook, otherVars, loopIdx, fp, log>>
    /\ UNCHANGED <<imgVars, pipeVars, plotVars, invVars>>

(***************************************************************************)
(* The specification.                                                      *)
(***************************************************************************)
Init ==
    /\ notebook \in {"deblender", "inventory", "call", "makeCatalog", "scarlet",
                      "weights", "listing", "butler", "get"}
    /\ pc = CASE notebook = "deblender" -> Program[1]
              [] notebook = "inventory" -> InventoryProgram[1]
              [] notebook = "listing" -> "D138"
              [] notebook = "call" -> "call"
              [] notebook = "makeCatalog" -> "makeCatalog"
              [] notebook = "scarlet" -> ScarletProgram[1]
              [] notebook = "weights" -> "L908"
              [] notebook = "butler" -> ButlerProgram[1]
              [] notebook = "get" -> "get"
    /\ nFigures \in (IF notebook = "call" THEN {0, 1} ELSE {0})
    /\ loopIdx = 0
    /\ coadds = <<>>
    /\ subset = <<>>
    /\ schema = {}
    /\ tasks = {}
    /\ table = NoTable
    /\ catalog = NoCatalog
    /\ templateCatalog = [b \in Bands |-> NoCatalog]
    /\ fp = NoneFp
    /\ heapTop = 0
    /\ runArgs = <<>>
    /\ log = <<>>
    /\ lastShow = NoShow
    /\ raised = 0
    /\ shared_repos = <<>>
    /\ repos = <<>>
    /\ printed = <<>>
    /\ tarquin = NoTaster
    /\ failed = NoTaster
    /\ env \in (IF notebook = "makeCatalog"
                THEN {NotebookGlobals \cup e : e \in SUBSET MissingNames}
                ELSE {{}})
    /\ ret = NoReturn
    /\ var \in (IF notebook = "weights"
                THEN [SeqToSet(ScarletFilters) -> 1..MaxVar]
                ELSE {<<>>})
    /\ weights = <<>>
    /\ frame = NoFrame
    /\ observation = NoObservation
    /\ cat = <<>>
    /\ plotted = <<>>
    /\ sources = <<>>
    /\ blend = NoBlend
    /\ fsys \in (IF notebook = "listing" THEN FileSystems ELSE {<<>>})
    /\ repository \in (IF notebook \in {"butler", "get"} THEN Repositories ELSE {<<>>})
    /\ data_id = NoId
    /\ data_entry = NoData
    /\ new_data_id = NoId
    /\ merged_i_data = NoData
    /\ written = {}

Next ==
    \/ GetButler \/ GetCoadds \/ ShowCoaddsToZ \/ ShowCoaddsFromI \/ MakeSubset
    \/ ShowSubset \/ MakeSchema \/ ConstructDetection \/ ConstructDeblend
    \/ ConstructMeasure \/ MakeTable \/ RunDetection \/ FirstFootprint \/ ForSrc
    \/ ShowFootprint \/ RunDeblend \/ MeasureR \/ MeasureI \/ CopyCatalogs
    \/ SelectChildren \/ ForChild \/ ShowChild \/ MakeResidual \/ MakeFigure
    \/ ShowScene \/ ShowModel
    \/ Install \/ ListShared \/ ListDatasets \/ MakeTarquin \/ MakeFailed \/ InventoryCell
    \/ TasterLoop
    \/ Raise
    \/ CallShowRGB
    \/ CallMakeCatalog
    \/ GetScarletCoadds \/ MakeScarletSubset \/ MakeWeights \/ MakeFrame
    \/ MakeObservation \/ Match \/ ShowKernel \/ ScarletCell \/ LoadCat
    \/ ShowCat \/ MakeSources \/ SkipExercise \/ MakeBlend \/ Fit
    \/ GetEntry \/ GetMerged \/ Cutout \/ ButlerCell \/ CallGet

Spec == Init /\ [][Next]_vars

\* A call of blend.fit that has started keeps running: the kernel executes the
\* cell until the call returns or raises.
LiveSpec == Spec /\ WF_vars(Fit)

(***************************************************************************)
(* Properties.                                                             *)
(***************************************************************************)

\* C1: in the deblender notebook the schema is complete before the table and
\* any catalog exist: when the table has been made, all three Tasks have been
\* constructed, the table was made from the complete schema, and the schema
\* has had no column added since (it still equals the table's).
C1_SchemaCompleteBeforeTable ==
    /\ table.obj # 0 =>
          /\ tasks = AllTasks
          /\ table.schema = CompleteSchema
          /\ schema = table.schema
    /\ catalog.obj # 0 => (table.obj # 0 /\ catalog.schema = schema)

C1_Witness == catalog.obj # 0 /\ Len(catalog.rows) > 0 /\ pc = "L408"

PipelineStages == <<"retrieval", "detection", "deblending", "measurement">>
StageRank(s) ==
    CASE s = "retrieval" -> 1 [] s = "detection" -> 2 [] s = "deblending" -> 3
      [] s = "measurement" -> 4 [] s = "plotting" -> 5

RECURSIVE WithoutPlotting(_)
WithoutPlotting(l) ==
    IF l = <<>> THEN <<>>
    ELSE (IF l[1] = "plotting" THEN <<>> ELSE <<l[1]>>) \o WithoutPlotting(Tail(l))

\* C2 as stated: the stages retrieval, detection, deblending, measurement,
\* plotting are invoked in that order, so that the log of invocations never
\* shows a stage after a later one of the list.
C2_Original ==
    notebook = "deblender" =>
        \A j, k \in 1..Len(log) : j < k => StageRank(log[j]) <= StageRank(log[k])

\* C2 amended: retrieval, detection, deblending and measurement are invoked in
\* that order, each once the previous has completed, and the plotting helper
\* is invoked between them but never before data retrieval.
C2_PipelineInOrder ==
    notebook = "deblender" =>
        /\ LET p == WithoutPlotting(log) IN
              /\ Len(p) <= Len(PipelineStages)
              /\ p = SubSeq(PipelineStages, 1, Len(p))
        /\ log # <<>> => log[1] = "retrieval"

C2_Witness ==
    log = <<"retrieval", "plotting", "detection", "plotting", "deblending",
            "measurement", "plotting">>

Deblended == templateCatalog["r"].obj # 0
RowIndices(rows) == 1..Len(rows)
PeakSet(row) == {row.footprint.peaks[j] : j \in 1..NPeaks(row)}

\* C3: after deblendTask.run every band's catalog holds every parent row that
\* detection made (unchanged id and footprint, parent 0), one child row for
\* each peak of every parent with more than one peak, no child row for a
\* single-peak parent, and no other row.
C3_ChildPerPeakParentsKept ==
    Deblended =>
      \A b \in Bands :
        LET R == templateCatalog[b].rows
            P == catalog.rows
        IN /\ \A i \in RowIndices(P) :
                 \E k \in RowIndices(R) :
                     /\ R[k].id = P[i].id
                     /\ R[k].parent = 0
                     /\ R[k].footprint = P[i].footprint
           /\ \A i \in RowIndices(P) :
                 LET kids == {k \in RowIndices(R) : R[k].parent = P[i].id} IN
                 IF NPeaks(P[i]) > 1
                 THEN /\ Cardinality(kids) = NPeaks(P[i])
                      /\ {R[k].footprint.peaks : k \in kids}
                            = {<<pk>> : pk \in PeakSet(P[i])}
                 ELSE kids = {}
           /\ Cardinality({R[k].id : k \in RowIndices(R)}) = Len(R)
           /\ \A k \in RowIndices(R) :
                 \/ \E i \in RowIndices(P) : R[k].id = P[i].id
                 \/ \E i \in RowIndices(P) : NPeaks(P[i]) > 1 /\ R[k].parent = P[i].id

C3_Witness ==
    /\ Deblended
    /\ \E i, j \in RowIndices(catalog.rows) :
          NPeaks(catalog.rows[i]) > 1 /\ NPeaks(catalog.rows[j]) = 1
    /\ Len(templateCatalog["i"].rows) > Len(catalog.rows)

\* C4: in every deblended catalog parent is 0 exactly for the rows that are
\* not children and is otherwise the id of a parent row of the catalog;
\* deblend_nChild is the number of rows whose parent is the row's id, and is 0
\* for children and never-blended rows; so deblend_nChild = 0 selects exactly
\* the never-blended rows and the children, and deblend_nChild = 0 with
\* parent = 0 exactly the never-blended rows.
C4_ParentAndNChild ==
    Deblended =>
      \A b \in Bands :
        LET R == templateCatalog[b].rows
            n == Len(catalog.rows)
            IsChild(k) == k > n
            NeverBlended(k) == k <= n /\ NPeaks(catalog.rows[k]) = 1
        IN /\ \A k \in RowIndices(R) :
                 /\ R[k].id # 0
                 /\ (R[k].parent = 0) <=> ~IsChild(k)
                 /\ IsChild(k) =>
                       \E j \in RowIndices(R) : ~IsChild(j) /\ R[j].id = R[k].parent
                 /\ R[k].deblend_nChild
                       = Cardinality({m \in RowIndices(R) : R[m].parent = R[k].id})
                 /\ (IsChild(k) \/ NeverBlended(k)) => R[k].deblend_nChild = 0
           /\ {k \in RowIndices(R) : R[k].deblend_nChild = 0}
                 = {k \in RowIndices(R) : NeverBlended(k) \/ IsChild(k)}
           /\ {k \in RowIndices(R) : R[k].deblend_nChild = 0 /\ R[k].parent = 0}
                 = {k \in RowIndices(R) : NeverBlended(k)}

C4_Witness ==
    /\ Deblended
    /\ pc = "L559"
    /\ Len(templateChildren("g")) > 1
    /\ \E k \in RowIndices(catalog.rows) : NPeaks(catalog.rows[k]) = 1

DeblendResult(b) == catalog.obj + IndexOf(filters, b)

ChannelSet(rgb) == {rgb.r, rgb.g, rgb.b}

\* C6: showRGB on an image of exactly three bands ignores bgr (whatever bgr
\* names, the call succeeds and the channels are the image's own filters); on
\* an image of any other number of bands the channels are the bands bgr
\* names, and the call fails exactly when the image lacks one of them.
C6_ThreeBandsIgnoreBgr ==
    lastShow.called =>
        IF Len(lastShow.image) = 3
        THEN /\ ~lastShow.raised
             /\ ChannelSet(lastShow.rgb) = SeqToSet(lastShow.image)
        ELSE /\ lastShow.raised <=> ~(SeqToSet(lastShow.bgr) \subseteq SeqToSet(lastShow.image))
             /\ ~lastShow.raised => ChannelSet(lastShow.rgb) = SeqToSet(lastShow.bgr)

C6_Witness ==
    /\ lastShow.called
    /\ Len(lastShow.image) = 3
    /\ ~(SeqToSet(lastShow.bgr) \subseteq SeqToSet(lastShow.image))
    /\ ~lastShow.raised

\* C7: the composite's blue channel is bgr[0], green bgr[1], red bgr[2] of the
\* bgr in use: the argument for an image that does not have three bands, and
\* for a three-band image the image's filters, so that its first filter is
\* blue and its last red.
C7_BlueGreenRed ==
    (lastShow.called /\ ~lastShow.raised) =>
        IF Len(lastShow.image) = 3
        THEN lastShow.rgb = [b |-> lastShow.image[1], g |-> lastShow.image[2],
                             r |-> lastShow.image[3]]
        ELSE lastShow.rgb = [b |-> lastShow.bgr[1], g |-> lastShow.bgr[2],
                             r |-> lastShow.bgr[3]]

C7_Witness ==
    /\ lastShow.called /\ ~lastShow.raised
    /\ Len(lastShow.image) = 3
    /\ lastShow.bgr # lastShow.image
    /\ lastShow.rgb.b = lastShow.image[1]
    /\ lastShow.rgb.r = lastShow.image[3]

\* C8: a completed showRGB call first draws the image and then, when fp is
\* given, plots one marker per peak of fp at (getIx, getIy), in peak order;
\* with fp None it plots nothing.
C8_OneMarkerPerPeak ==
    (lastShow.called /\ ~lastShow.raised) =>
        /\ lastShow.ops[1] = <<"imshow", 0, 0>>
        /\ lastShow.fp.none => Len(lastShow.ops) = 1
        /\ ~lastShow.fp.none =>
              /\ Len(lastShow.ops) = 1 + Len(lastShow.fp.peaks)
              /\ \A j \in 1..Len(lastShow.fp.peaks) :
                    lastShow.ops[1 + j]
                       = <<"plot", lastShow.fp.peaks[j].ix, lastShow.fp.peaks[j].iy>>

C8_Witness ==
    /\ lastShow.called /\ ~lastShow.raised
    /\ ~lastShow.fp.none
    /\ Len(lastShow.fp.peaks) >= 2
    /\ Len(lastShow.ops) = 1 + Len(lastShow.fp.peaks)

ShowLabels == {"L232", "L241", "L281", "L457", "L565", "L587", "L588", "call"}
\* A step that is a call of showRGB (not the statement failing before the call).
IsShowStep == pc \in ShowLabels /\ (pc' # "halted" \/ lastShow'.raised)

\* C9: a call of showRGB changes no notebook variable (the image, the
\* footprint, the catalogs, ... are as before); it creates a figure exactly
\* when it completes with ax None; and a call with the image and bgr of the
\* call before it composes the same RGB.
C9_ShowRGBFrame ==
    [][IsShowStep =>
          /\ UNCHANGED notebookVars
          /\ nFigures' = nFigures
                + (IF ~lastShow'.raised /\ lastShow'.ax.none THEN 1 ELSE 0)
          /\ (/\ lastShow.called
              /\ lastShow'.image = lastShow.image
              /\ lastShow'.bgr = lastShow.bgr) => lastShow'.rgb = lastShow.rgb]_vars

C9_Witness ==
    /\ notebook = "deblender"
    /\ pc = "done"
    /\ lastShow.called /\ ~lastShow.ax.none /\ ~lastShow.newFigure
    /\ nFigures > 3

\* C10 as stated: no cell catches an exception and continues, so once an
\* exception has been raised the run is halted.
C10_Original == raised > 0 => pc = "halted"

\* C10 amended: an exception halts the run, except in the two loops of
\* DataInventory.ipynb (lines 562-567 and 576-581), where any exception of the
\* loop body is caught, the repo is reported with print and the loop goes on
\* with the next repo.
C10_HaltsOrCaughtInLoop ==
    [][raised' > raised =>
          IF pc \in {"D562", "D576"}
          THEN /\ pc' = pc
               /\ loopIdx' = loopIdx + 1
               /\ printed' = Append(printed, LoopList(pc)[loopIdx + 1])
          ELSE /\ pc' = "halted"
               /\ UNCHANGED printed]_vars

C10_Witness == notebook = "inventory" /\ pc = "done" /\ Len(printed) > 1

\* C11: constructing a Taster never raises on a folder that is not a Butler
\* repository: the cell at line 275 ends normally with failed.butler None, and
\* the Taster of line 227 has a Butler exactly when its folder is a repository.
C11_TasterButlerOrNone ==
    [][/\ pc = "D275" =>
            /\ pc' = AfterD("D275")
            /\ raised' = raised
            /\ failed'.made /\ ~failed'.isRepo /\ failed'.butler = "None"
       /\ (pc = "D227" /\ pc' = AfterD("D227")) =>
            /\ raised' = raised
            /\ tarquin'.made
            /\ tarquin'.butler = (IF tarquin'.isRepo THEN "Butler" ELSE "None")]_vars

C11_Witness ==
    /\ notebook = "inventory" /\ pc = "done" /\ raised = 0
    /\ failed.made /\ failed.butler = "None"
    /\ tarquin.made /\ tarquin.isRepo /\ tarquin.butler = "Butler"

\* C12: a call of makeCatalog that reaches its return statement returns both
\* outputs its docstring documents, the catalog and bg_rms.
C12_ReturnsCatalogAndBgRms ==
    ret.outcome = "return" => ret.value = DocumentedReturns

\* A call that reaches line 1037, having computed bg_rms on the way.
C12_Witness ==
    /\ notebook = "makeCatalog" /\ pc = "done"
    /\ MissingNames \subseteq env
    /\ ret.outcome = "return" /\ ret.value = <<"catalog">>

\* The fraction a is smaller than the fraction b (denominators positive).
Less(a, b) == a.num * b.den < b.num * a.den

\* C13: the weights given to the Observation are inverse-variance weights:
\* for every band, weight times variance is 1, and a band with a higher
\* variance has a lower weight.
C13_InverseVarianceWeights ==
    (notebook = "weights" /\ observation.made) =>
        /\ \A b \in DOMAIN var :
              observation.weights[b].num * var[b] = observation.weights[b].den
        /\ \A b, c \in DOMAIN var :
              var[b] > var[c] => Less(observation.weights[b], observation.weights[c])

\* An Observation built from planes of different variance.
C13_Witness ==
    /\ notebook = "weights" /\ observation.made
    /\ var["u"] = 2 /\ var["g"] = 1
    /\ observation.weights["u"] = Fraction(1, 4)

\* C14: the diff kernel of the Observation is None from construction until
\* observation.match(frame) and instantiated from then on, and the match comes
\* first: every Source was initialised from the matched Observation, and the
\* Blend is built and fitted with it matched.
C14_MatchedBeforeSourcesAndBlend ==
    /\ [](/\ \A i \in DOMAIN sources : sources[i].matched
          /\ blend.made => blend.matched /\ observation.diff_kernels = "Kernel"
          /\ pc = "L1179" => blend.made)
    /\ [][/\ (pc = "L944" /\ pc' # "halted") =>
               observation'.made /\ observation'.diff_kernels = "None"
          /\ (pc = "L963" /\ pc' # "halted") => observation'.diff_kernels = "Kernel"
          /\ observation'.diff_kernels # observation.diff_kernels =>
               pc = "L963" /\ observation.made /\ observation.diff_kernels = "None"]_vars

\* A fitted Blend of at least one Source.
C14_Witness ==
    /\ notebook = "scarlet" /\ pc = "done"
    /\ Len(sources) > 0 /\ blend.made /\ blend.loss > 0
    /\ observation.diff_kernels = "Kernel"

\* C15: blend.fit(200, e_rel=1e-3) terminates: no iteration follows one whose
\* relative error is <= e_rel, the recorded losses never number more than
\* max_iter, and the call ends.
C15_FitTerminates ==
    /\ [](blend.loss <= max_iter)
    /\ [][(pc = "L1179" /\ blend.converged) => blend' = blend]_vars
    /\ (pc = "L1179") ~> (pc # "L1179")

\* A fit that ran all max_iter iterations without converging.
C15_Witness ==
    /\ notebook = "scarlet" /\ pc = "L1199"
    /\ blend.loss = max_iter /\ ~blend.converged

\* C16: there is exactly one Source per catalog row, in catalog order, each
\* centred at (y, x) of its own row, while imshow_rgb marks the same rows at
\* (x, y); no Source has its coordinates the other way round.
C16_SourcesYXMarkersXY ==
    /\ [](/\ sources # <<>> =>
               /\ Len(sources) = Len(cat)
               /\ \A i \in DOMAIN sources :
                     sources[i].center = <<cat[i].y, cat[i].x>>
          /\ plotted # <<>> =>
               /\ Len(plotted) = Len(cat)
               /\ \A i \in DOMAIN plotted : plotted[i] = <<cat[i].x, cat[i].y>>)
    /\ [][/\ (pc = "L1085" /\ pc' # "halted") => Len(sources') = Len(cat)
          /\ sources' # sources => pc = "L1085"]_vars

\* Two detections, the first at x = 1, y = 2, marked and turned into Sources.
C16_Witness ==
    /\ notebook = "scarlet" /\ pc = "L1100"
    /\ Len(cat) = 2 /\ cat[1].x = 1 /\ cat[1].y = 2
    /\ plotted[1] = <<1, 2>> /\ sources[1].center = <<2, 1>>
    /\ Len(sources) = 2

\* The folders of the listed directory that hold a marker file.
Marked == {d \in DOMAIN fsys : fsys[d].markers # {}}

\* s lists the elements of S, each once.
IsListOf(s, S) == SeqToSet(s) = S /\ Len(s) = Cardinality(S)

\* C17: shared_repos, and repos, list exactly the folders that hold _mapper or
\* repositoryCfg.yaml, each once: a folder with both appears once, a folder
\* with neither does not appear, and nothing else does.
C17_ExactlyTheMarkedFolders ==
    notebook = "listing" =>
        /\ pc \in {"D169", "done"} => IsListOf(shared_repos, Marked)
        /\ pc = "done" => IsListOf(repos, Marked)

\* Both listings of a directory with a folder holding both marker files and
\* a folder holding none.
C17_Witness ==
    /\ notebook = "listing" /\ pc = "done"
    /\ fsys[1].markers = Markers /\ fsys[2].markers = {}
    /\ ~fsys[1].readme
    /\ shared_repos = <<1>> /\ repos = <<1>>

\* C18: butler.get ignores a data id key that is not a key of the dataset
\* type: with the extra key merge_footprint_i, whatever its value, the call
\* raises nothing and returns the table the call without it returns, all
\* rows included.
C18_ExtraKeyIgnored ==
    (notebook = "get" /\ pc # "get") =>
        /\ pc = "done" /\ raised = 0
        /\ "merge_footprint_i" \in DOMAIN new_data_id
        /\ merged_i_data = data_entry
        /\ data_entry.rows = repository[data_id]

\* The extra key asks for True and the table returned has a False row.
C18_Witness ==
    /\ notebook = "get" /\ pc = "done"
    /\ new_data_id["merge_footprint_i"] = TRUE
    /\ \E i \in DOMAIN merged_i_data.rows : merged_i_data.rows[i] = FALSE

\* C19 as stated: no cell writes a file.
C19_Original == written = {}

\* C19: no cell writes a dataset, a catalog, an image or a pickle: what the
\* cells read through the Butler and pickle.load stays in notebook variables.
\* The one cell that writes files is the install of the stackclub package at
\* line 52 of DataInventory.ipynb, and it writes the package's metadata only.
C19_OnlyTheInstallWrites ==
    /\ [](written \subseteq InstallWrites)
    /\ [][written' # written => pc = "D52"]_vars

\* The end of a Butler notebook run that read two tables and cut a postage
\* stamp out of an image.
C19_Witness ==
    /\ notebook = "butler" /\ pc = "done"
    /\ data_entry.made /\ merged_i_data.made /\ Len(data_entry.rows) > 0
    /\ written = {}

\* C20: makeCatalog(cube), called with what the notebook has bound by line
\* 1053, reaches its return statement: every name its body reads is bound.
C20_ReachesReturn ==
    (notebook = "makeCatalog" /\ env = NotebookGlobals /\ pc # "makeCatalog") =>
        ret.outcome = "return"

\* The call made from the notebook as it stands ends at line 1027.
C20_Witness ==
    /\ notebook = "makeCatalog" /\ env = NotebookGlobals /\ pc = "halted"
    /\ ret.outcome = "NameError" /\ ret.at = "M1027"
====
